---------------------------- MODULE Spec2Model ----------------------------
(***************************************************************************)
(* Model of src/common/data_type.rs: the DataTypeMap translations between  *)
(* Arrow physical types (DataType), Python host types (PythonType) and SQL *)
(* types (SqlType).                                                        *)
(*                                                                         *)
(* The translations are pure functions.  They are modelled as operators    *)
(* and applied by one action per entry point to an argument that Init      *)
(* draws from bounded sets of DataType, SqlType and ScalarValue values.    *)
(*                                                                         *)
(* Encoding of the Rust values:                                            *)
(*   - an enum variant is a record with a "tag" field and one field per    *)
(*     parameter; a field name always holds values of one kind;            *)
(*   - Option<T> is a sequence: <<>> for None and <<x>> for Some(x);       *)
(*   - Result<T, E> is Ok(v) or Err(e);                                    *)
(*   - the value a ScalarValue carries is an integer code: every pattern   *)
(*     of the code binds it with `_` and never inspects it.                *)
(***************************************************************************)
EXTENDS Integers, Sequences, FiniteSets, TLC

VARIABLES op, arg, result

vars == <<op, arg, result>>

---------------------------------------------------------------------------
(* Bounds of the model.                                                    *)

\* Largest decimal precision (u8) drawn for Decimal128/Decimal256.
MaxPrecision == 2

\* Largest decimal scale (i8) drawn; scales run from -1 to MaxScale.
MaxScale == 1

\* Nesting depth of container DataTypes (a List of a List is depth 2).
MaxNest == 1

\* Nesting depth of Dictionary scalars (a Dictionary of a Dictionary is 2).
MaxDictDepth == 2

\* Number of callers that call the entry points concurrently.
NumCallers == 2

\* Timezone strings drawn for Timestamp's Option<Arc<str>>.
TzNames == {"UTC", "+01:00"}

\* Byte widths drawn for FixedSizeBinary and list sizes for FixedSizeList.
Sizes == {0, 16}

\* Carried values of scalars: None, or Some of an integer code.
Payloads == {<<>>, <<5>>, <<42>>}

---------------------------------------------------------------------------
(* Option and Result.                                                      *)

None == <<>>

Some(x) == <<x>>

Ok(v) == [ok |-> TRUE, value |-> v]

Err(e) == [ok |-> FALSE, error |-> e]

IsOk(r) == "value" \in DOMAIN r

IsErr(r) == "error" \in DOMAIN r

---------------------------------------------------------------------------
(* arrow::datatypes::TimeUnit and IntervalUnit, imported at line 18.       *)

TimeUnit == {"Second", "Millisecond", "Microsecond", "Nanosecond"}

IntervalUnit == {"YearMonth", "DayTime", "MonthDayNano"}

(* PythonType, lines 532-543.                                              *)
PythonType ==
    {"Array", "Bool", "Bytes", "Datetime", "Float", "Int", "List", "None",
     "Object", "Str"}

(* SqlType, lines 552-601: the 48 variants.                                *)
SqlType ==
    {"ANY", "ARRAY", "BIGINT", "BINARY", "BOOLEAN", "CHAR", "COLUMN_LIST",
     "CURSOR", "DATE", "DECIMAL", "DISTINCT", "DOUBLE", "DYNAMIC_STAR",
     "FLOAT", "GEOMETRY", "INTEGER", "INTERVAL", "INTERVAL_DAY",
     "INTERVAL_DAY_HOUR", "INTERVAL_DAY_MINUTE", "INTERVAL_DAY_SECOND",
     "INTERVAL_HOUR", "INTERVAL_HOUR_MINUTE", "INTERVAL_HOUR_SECOND",
     "INTERVAL_MINUTE", "INTERVAL_MINUTE_SECOND", "INTERVAL_MONTH",
     "INTERVAL_SECOND", "INTERVAL_YEAR", "INTERVAL_YEAR_MONTH", "MAP",
     "MULTISET", "NULL", "OTHER", "REAL", "ROW", "SARG", "SMALLINT",
     "STRUCTURED", "SYMBOL", "TIME", "TIME_WITH_LOCAL_TIME_ZONE",
     "TIMESTAMP", "TIMESTAMP_WITH_LOCAL_TIME_ZONE", "TINYINT", "UNKNOWN",
     "VARBINARY", "VARCHAR"}

---------------------------------------------------------------------------
(* arrow::datatypes::DataType, the type matched at lines 67-228.           *)

\* A variant without parameters: DataType::Null, DataType::Int8, ...
Unit(tag) == [tag |-> tag]

Timestamp(unit, tz) == [tag |-> "Timestamp", unit |-> unit, tz |-> tz]

Time32(unit) == [tag |-> "Time32", unit |-> unit]

Time64(unit) == [tag |-> "Time64", unit |-> unit]

Duration(unit) == [tag |-> "Duration", unit |-> unit]

Interval(unit) == [tag |-> "Interval", unit |-> unit]

FixedSizeBinary(size) == [tag |-> "FixedSizeBinary", size |-> size]

Decimal128(precision, scale) ==
    [tag |-> "Decimal128", precision |-> precision, scale |-> scale]

Decimal256(precision, scale) ==
    [tag |-> "Decimal256", precision |-> precision, scale |-> scale]

\* arrow::datatypes::Field, what a FieldRef points to.
\* Fields are drawn with dict_id 0, dict_is_ordered false and no metadata.
Field(name, data_type, nullable) ==
    [name |-> name, data_type |-> data_type, nullable |-> nullable]

List(field) == [tag |-> "List", field |-> field]

FixedSizeList(field, size) ==
    [tag |-> "FixedSizeList", field |-> field, size |-> size]

LargeList(field) == [tag |-> "LargeList", field |-> field]

Struct(fields) == [tag |-> "Struct", fields |-> fields]

\* ufields: the sequence of (type id, field) pairs of UnionFields.
Union(ufields, mode) == [tag |-> "Union", ufields |-> ufields, mode |-> mode]

Dictionary(key, val) == [tag |-> "Dictionary", key |-> key, val |-> val]

Map(field, sorted) == [tag |-> "Map", field |-> field, sorted |-> sorted]

RunEndEncoded(run_ends, values) ==
    [tag |-> "RunEndEncoded", run_ends |-> run_ends, values |-> values]

\* The variants without parameters, in the order of the match.
UnitTags ==
    {"Null", "Boolean", "Int8", "Int16", "Int32", "Int64", "UInt8", "UInt16",
     "UInt32", "UInt64", "Float16", "Float32", "Float64", "Date32", "Date64",
     "Binary", "LargeBinary", "Utf8", "LargeUtf8"}

\* All 35 variant tags of DataType.
DataTypeTags ==
    UnitTags \cup
    {"Timestamp", "Time32", "Time64", "Duration", "Interval",
     "FixedSizeBinary", "List", "FixedSizeList", "LargeList", "Struct",
     "Union", "Dictionary", "Decimal128", "Decimal256", "Map",
     "RunEndEncoded"}

Precisions == 1..MaxPrecision

Scales == (-1)..MaxScale

TimeZones == {None} \cup {Some(z) : z \in TzNames}

\* Every DataType that holds no other DataType, with its parameters.
LeafTypes ==
    {Unit(t) : t \in UnitTags}
    \cup {Timestamp(u, z) : u \in TimeUnit, z \in TimeZones}
    \cup {Time32(u) : u \in TimeUnit}
    \cup {Time64(u) : u \in TimeUnit}
    \cup {Duration(u) : u \in TimeUnit}
    \cup {Interval(u) : u \in IntervalUnit}
    \cup {FixedSizeBinary(n) : n \in Sizes}
    \cup {Decimal128(p, s) : p \in Precisions, s \in Scales}
    \cup {Decimal256(p, s) : p \in Precisions, s \in Scales}

\* The leaf types drawn as element types of containers.
ElementLeafTypes ==
    {Unit("Int32"), Unit("Utf8"), Timestamp("Millisecond", Some("UTC"))}

\* The key types drawn for Dictionary and the run-end types for RunEndEncoded.
KeyTypes == {Unit("Int8"), Unit("Int32"), Unit("Utf8")}

FieldsOver(types) == {Field("item", t, n) : t \in types, n \in BOOLEAN}

\* Field lists of a Struct: none, one, or one followed by a fixed second.
FieldListsOver(types) ==
    {<<>>}
    \cup {<<f>> : f \in FieldsOver(types)}
    \cup {<<f, Field("b", Unit("Utf8"), TRUE)>> : f \in FieldsOver(types)}

UnionFieldsOver(types) ==
    {<<>>} \cup {<<[type_id |-> 0, field |-> f]>> : f \in FieldsOver(types)}

\* The container types whose element types are drawn from `types`.
ContainersOver(types) ==
    {List(f) : f \in FieldsOver(types)}
    \cup {FixedSizeList(f, n) : f \in FieldsOver(types), n \in Sizes}
    \cup {LargeList(f) : f \in FieldsOver(types)}
    \cup {Struct(fs) : fs \in FieldListsOver(types)}
    \cup {Union(ufs, m) : ufs \in UnionFieldsOver(types),
                          m \in {"Sparse", "Dense"}}
    \cup {Dictionary(k, v) : k \in KeyTypes, v \in types}
    \cup {Map(f, s) : f \in FieldsOver(types), s \in BOOLEAN}
    \cup {RunEndEncoded(Field("run_ends", k, FALSE), f) :
              k \in KeyTypes, f \in FieldsOver(types)}

RECURSIVE NestedTypes(_)
\* The element types of nesting depth at most d.
NestedTypes(d) ==
    IF d = 0 THEN ElementLeafTypes
    ELSE LET below == NestedTypes(d - 1)
         IN  below \cup ContainersOver(below)

\* The DataType values the model draws.
DataTypes == LeafTypes \cup NestedTypes(MaxNest)

---------------------------------------------------------------------------
(* format!("{:?}", x): the Debug rendering the error messages are built    *)
(* from (lines 159, 176, 194, ..., 317, 345, ...).  DataType, Field,       *)
(* TimeUnit, IntervalUnit and SqlType derive Debug: a variant without      *)
(* parameters prints its name, a variant with parameters prints            *)
(* Name(p1, p2), a struct prints Name { field: value, ... }.               *)

DebugBool(b) == IF b THEN "true" ELSE "false"

\* Option<Arc<str>>: None, or Some("...") with the string quoted.
DebugOptionStr(o) ==
    IF o = None THEN "None" ELSE "Some(\"" \o o[1] \o "\")"

RECURSIVE DebugDataType(_)
RECURSIVE DebugField(_)
RECURSIVE DebugFields(_, _)
RECURSIVE DebugUnionFields(_, _)

DebugField(f) ==
    "Field { name: \"" \o f.name \o "\", data_type: "
    \o DebugDataType(f.data_type)
    \o ", nullable: " \o DebugBool(f.nullable)
    \o ", dict_id: 0, dict_is_ordered: false, metadata: {} }"

\* The elements of fs from index i on, separated by ", ".
DebugFields(fs, i) ==
    IF i > Len(fs) THEN ""
    ELSE DebugField(fs[i])
         \o (IF i < Len(fs) THEN ", " ELSE "")
         \o DebugFields(fs, i + 1)

DebugUnionFields(ufs, i) ==
    IF i > Len(ufs) THEN ""
    ELSE "(" \o ToString(ufs[i].type_id) \o ", "
         \o DebugField(ufs[i].field) \o ")"
         \o (IF i < Len(ufs) THEN ", " ELSE "")
         \o DebugUnionFields(ufs, i + 1)

DebugDataType(t) ==
    CASE t.tag \in {"Time32", "Time64", "Duration", "Interval"} ->
            t.tag \o "(" \o t.unit \o ")"
      [] t.tag = "Timestamp" ->
            "Timestamp(" \o t.unit \o ", " \o DebugOptionStr(t.tz) \o ")"
      [] t.tag = "FixedSizeBinary" ->
            "FixedSizeBinary(" \o ToString(t.size) \o ")"
      [] t.tag \in {"Decimal128", "Decimal256"} ->
            t.tag \o "(" \o ToString(t.precision) \o ", "
            \o ToString(t.scale) \o ")"
      [] t.tag \in {"List", "LargeList"} ->
            t.tag \o "(" \o DebugField(t.field) \o ")"
      [] t.tag = "FixedSizeList" ->
            "FixedSizeList(" \o DebugField(t.field) \o ", "
            \o ToString(t.size) \o ")"
      [] t.tag = "Struct" ->
            "Struct([" \o DebugFields(t.fields, 1) \o "])"
      [] t.tag = "Union" ->
            "Union([" \o DebugUnionFields(t.ufields, 1) \o "], "
            \o t.mode \o ")"
      [] t.tag = "Dictionary" ->
            "Dictionary(" \o DebugDataType(t.key) \o ", "
            \o DebugDataType(t.val) \o ")"
      [] t.tag = "Map" ->
            "Map(" \o DebugField(t.field) \o ", " \o DebugBool(t.sorted)
            \o ")"
      [] t.tag = "RunEndEncoded" ->
            "RunEndEncoded(" \o DebugField(t.run_ends) \o ", "
            \o DebugField(t.values) \o ")"
      [] OTHER -> t.tag

\* SqlType derives Debug and has no parameters: the variant's name.
DebugSqlType(s) == s

---------------------------------------------------------------------------
(* Errors.                                                                 *)

\* DataFusionError::NotImplemented(String), built at lines 158, 175, ...
NotImplemented(msg) == [variant |-> "NotImplemented", msg |-> msg]

\* crate::errors::py_datafusion_err: wraps the error for the host runtime.
py_datafusion_err(e) == [py_err |-> e]

---------------------------------------------------------------------------
(* DataTypeMap, lines 46-64.                                               *)

\* PyDataType { data_type }, lines 513-515.
PyDataType(data_type) == [data_type |-> data_type]

\* DataTypeMap::new, lines 56-64.
DataTypeMap_new(arrow_type, python_type, sql_type) ==
    [arrow_type |-> PyDataType(arrow_type),
     python_type |-> python_type,
     sql_type |-> sql_type]

\* Mutant of interval_sql_type: the DayTime and MonthDayNano arms swapped.
interval_sql_type_swapped(interval_unit) ==
    CASE interval_unit = "DayTime" -> "INTERVAL_MONTH"
      [] interval_unit = "MonthDayNano" -> "INTERVAL_DAY"
      [] interval_unit = "YearMonth" -> "INTERVAL_YEAR_MONTH"

\* The inner match of the Interval arm, lines 164-168.
interval_sql_type(interval_unit) ==
    CASE interval_unit = "DayTime" -> "INTERVAL_DAY"
      [] interval_unit = "MonthDayNano" -> "INTERVAL_MONTH"
      [] interval_unit = "YearMonth" -> "INTERVAL_YEAR_MONTH"

\* The arms that fail: Err(py_datafusion_err(NotImplemented(format!(...)))).
arrow_not_implemented(arrow_type) ==
    Err(py_datafusion_err(NotImplemented(DebugDataType(arrow_type))))

\* The match of map_from_arrow_type, lines 67-228, arm by arm.
match_arrow_type(arrow_type) ==
    CASE arrow_type.tag = "Null" ->
            Ok(DataTypeMap_new(Unit("Null"), "None", "NULL"))
      [] arrow_type.tag = "Boolean" ->
            Ok(DataTypeMap_new(Unit("Boolean"), "Bool", "BOOLEAN"))
      [] arrow_type.tag = "Int8" ->
            Ok(DataTypeMap_new(Unit("Int8"), "Int", "TINYINT"))
      [] arrow_type.tag = "Int16" ->
            Ok(DataTypeMap_new(Unit("Int16"), "Int", "SMALLINT"))
      [] arrow_type.tag = "Int32" ->
            Ok(DataTypeMap_new(Unit("Int32"), "Int", "INTEGER"))
      [] arrow_type.tag = "Int64" ->
            Ok(DataTypeMap_new(Unit("Int64"), "Int", "BIGINT"))
      [] arrow_type.tag = "UInt8" ->
            Ok(DataTypeMap_new(Unit("UInt8"), "Int", "TINYINT"))
      [] arrow_type.tag = "UInt16" ->
            Ok(DataTypeMap_new(Unit("UInt16"), "Int", "SMALLINT"))
      [] arrow_type.tag = "UInt32" ->
            Ok(DataTypeMap_new(Unit("UInt32"), "Int", "INTEGER"))
      [] arrow_type.tag = "UInt64" ->
            Ok(DataTypeMap_new(Unit("UInt64"), "Int", "BIGINT"))
      [] arrow_type.tag = "Float16" ->
            Ok(DataTypeMap_new(Unit("Float16"), "Float", "FLOAT"))
      [] arrow_type.tag = "Float32" ->
            Ok(DataTypeMap_new(Unit("Float32"), "Float", "FLOAT"))
      [] arrow_type.tag = "Float64" ->
            Ok(DataTypeMap_new(Unit("Float64"), "Float", "FLOAT"))
      [] arrow_type.tag = "Timestamp" ->
            Ok(DataTypeMap_new(Timestamp(arrow_type.unit, arrow_type.tz),
                               "Datetime", "DATE"))
      [] arrow_type.tag = "Date32" ->
            Ok(DataTypeMap_new(Unit("Date32"), "Datetime", "DATE"))
      [] arrow_type.tag = "Date64" ->
            Ok(DataTypeMap_new(Unit("Date64"), "Datetime", "DATE"))
      [] arrow_type.tag = "Time32" ->
            Ok(DataTypeMap_new(Time32(arrow_type.unit), "Datetime", "DATE"))
      [] arrow_type.tag = "Time64" ->
            Ok(DataTypeMap_new(Time64(arrow_type.unit), "Datetime", "DATE"))
      [] arrow_type.tag = "Duration" -> arrow_not_implemented(arrow_type)
      [] arrow_type.tag = "Interval" ->
            Ok(DataTypeMap_new(Interval(arrow_type.unit), "Datetime",
                               interval_sql_type(arrow_type.unit)))
      [] arrow_type.tag = "Binary" ->
            Ok(DataTypeMap_new(Unit("Binary"), "Bytes", "BINARY"))
      [] arrow_type.tag = "FixedSizeBinary" ->
            arrow_not_implemented(arrow_type)
      [] arrow_type.tag = "LargeBinary" ->
            Ok(DataTypeMap_new(Unit("LargeBinary"), "Bytes", "BINARY"))
      [] arrow_type.tag = "Utf8" ->
            Ok(DataTypeMap_new(Unit("Utf8"), "Str", "VARCHAR"))
      [] arrow_type.tag = "LargeUtf8" ->
            Ok(DataTypeMap_new(Unit("LargeUtf8"), "Str", "VARCHAR"))
      [] arrow_type.tag = "List" -> arrow_not_implemented(arrow_type)
      [] arrow_type.tag = "FixedSizeList" -> arrow_not_implemented(arrow_type)
      [] arrow_type.tag = "LargeList" -> arrow_not_implemented(arrow_type)
      [] arrow_type.tag = "Struct" -> arrow_not_implemented(arrow_type)
      [] arrow_type.tag = "Union" -> arrow_not_implemented(arrow_type)
      [] arrow_type.tag = "Dictionary" -> arrow_not_implemented(arrow_type)
      [] arrow_type.tag = "Decimal128" ->
            Ok(DataTypeMap_new(
                   Decimal128(arrow_type.precision, arrow_type.scale),
                   "Float", "DECIMAL"))
      [] arrow_type.tag = "Decimal256" ->
            Ok(DataTypeMap_new(
                   Decimal256(arrow_type.precision, arrow_type.scale),
                   "Float", "DECIMAL"))
      [] arrow_type.tag = "Map" -> arrow_not_implemented(arrow_type)
      [] arrow_type.tag = "RunEndEncoded" -> arrow_not_implemented(arrow_type)

\* Mutant of map_from_arrow_type: FixedSizeBinary is mapped like Binary
\* instead of being rejected.
map_from_arrow_type_accepts_fixed(arrow_type) ==
    IF arrow_type.tag = "FixedSizeBinary"
    THEN Ok(DataTypeMap_new(FixedSizeBinary(arrow_type.size), "Bytes",
                            "BINARY"))
    ELSE match_arrow_type(arrow_type)

\* Mutant of map_from_arrow_type: the Timestamp arm drops the timezone.
map_from_arrow_type_drops_tz(arrow_type) ==
    IF arrow_type.tag = "Timestamp"
    THEN Ok(DataTypeMap_new(Timestamp(arrow_type.unit, None), "Datetime",
                            "DATE"))
    ELSE match_arrow_type(arrow_type)

\* Mutant of map_from_arrow_type: UInt32 is given the next wider SQL type.
map_from_arrow_type_widens_uint32(arrow_type) ==
    IF arrow_type.tag = "UInt32"
    THEN Ok(DataTypeMap_new(Unit("UInt32"), "Int", "BIGINT"))
    ELSE match_arrow_type(arrow_type)

\* Mutant of map_from_arrow_type: LargeBinary is mapped to VARBINARY, the
\* SQL type that py_map_from_sql_type maps to LargeBinary.
map_from_arrow_type_varbinary(arrow_type) ==
    IF arrow_type.tag = "LargeBinary"
    THEN Ok(DataTypeMap_new(Unit("LargeBinary"), "Bytes", "VARBINARY"))
    ELSE match_arrow_type(arrow_type)

\* Mutant of map_from_arrow_type: Interval is rejected like Duration.
map_from_arrow_type_rejects_interval(arrow_type) ==
    IF arrow_type.tag = "Interval" THEN arrow_not_implemented(arrow_type)
    ELSE match_arrow_type(arrow_type)

\* Mutant of map_from_arrow_type: a process-wide in-use flag, set while any
\* caller holds a result, makes the call fail; the call reads shared state.
map_from_arrow_type_busy(arrow_type) ==
    IF \E d \in 1..NumCallers : op[d] # "none"
    THEN arrow_not_implemented(arrow_type)
    ELSE match_arrow_type(arrow_type)

\* DataTypeMap::map_from_arrow_type, lines 66-229.
map_from_arrow_type(arrow_type) == match_arrow_type(arrow_type)

\* DataTypeMap::py_map_from_arrow_type, lines 308-310.
py_map_from_arrow_type(arrow_type) ==
    map_from_arrow_type(arrow_type.data_type)

---------------------------------------------------------------------------
(* DataTypeMap::py_map_from_sql_type, lines 314-505.                       *)

\* The arms that fail: Err(py_datafusion_err(NotImplemented(format!(...)))).
sql_not_implemented(sql_type) ==
    Err(py_datafusion_err(NotImplemented(DebugSqlType(sql_type))))

\* The match of py_map_from_sql_type, lines 315-504, arm by arm.
match_sql_type(sql_type) ==
    CASE sql_type = "ANY" -> sql_not_implemented(sql_type)
      [] sql_type = "ARRAY" -> sql_not_implemented(sql_type)
      [] sql_type = "BIGINT" ->
            Ok(DataTypeMap_new(Unit("Int64"), "Int", "BIGINT"))
      [] sql_type = "BINARY" ->
            Ok(DataTypeMap_new(Unit("Binary"), "Bytes", "BINARY"))
      [] sql_type = "BOOLEAN" ->
            Ok(DataTypeMap_new(Unit("Boolean"), "Bool", "BOOLEAN"))
      [] sql_type = "CHAR" ->
            Ok(DataTypeMap_new(Unit("UInt8"), "Int", "CHAR"))
      [] sql_type = "COLUMN_LIST" -> sql_not_implemented(sql_type)
      [] sql_type = "CURSOR" -> sql_not_implemented(sql_type)
      [] sql_type = "DATE" ->
            Ok(DataTypeMap_new(Unit("Date64"), "Datetime", "DATE"))
      [] sql_type = "DECIMAL" ->
            Ok(DataTypeMap_new(Decimal128(1, 1), "Float", "DECIMAL"))
      [] sql_type = "DISTINCT" -> sql_not_implemented(sql_type)
      [] sql_type = "DOUBLE" ->
            Ok(DataTypeMap_new(Decimal256(1, 1), "Float", "DOUBLE"))
      [] sql_type = "DYNAMIC_STAR" -> sql_not_implemented(sql_type)
      [] sql_type = "FLOAT" ->
            Ok(DataTypeMap_new(Decimal128(1, 1), "Float", "FLOAT"))
      [] sql_type = "GEOMETRY" -> sql_not_implemented(sql_type)
      [] sql_type = "INTEGER" ->
            Ok(DataTypeMap_new(Unit("Int8"), "Int", "INTEGER"))
      [] sql_type = "INTERVAL" -> sql_not_implemented(sql_type)
      [] sql_type = "INTERVAL_DAY" -> sql_not_implemented(sql_type)
      [] sql_type = "INTERVAL_DAY_HOUR" -> sql_not_implemented(sql_type)
      [] sql_type = "INTERVAL_DAY_MINUTE" -> sql_not_implemented(sql_type)
      [] sql_type = "INTERVAL_DAY_SECOND" -> sql_not_implemented(sql_type)
      [] sql_type = "INTERVAL_HOUR" -> sql_not_implemented(sql_type)
      [] sql_type = "INTERVAL_HOUR_MINUTE" -> sql_not_implemented(sql_type)
      [] sql_type = "INTERVAL_HOUR_SECOND" -> sql_not_implemented(sql_type)
      [] sql_type = "INTERVAL_MINUTE" -> sql_not_implemented(sql_type)
      [] sql_type = "INTERVAL_MINUTE_SECOND" -> sql_not_implemented(sql_type)
      [] sql_type = "INTERVAL_MONTH" -> sql_not_implemented(sql_type)
      [] sql_type = "INTERVAL_SECOND" -> sql_not_implemented(sql_type)
      [] sql_type = "INTERVAL_YEAR" -> sql_not_implemented(sql_type)
      [] sql_type = "INTERVAL_YEAR_MONTH" -> sql_not_implemented(sql_type)
      [] sql_type = "MAP" -> sql_not_implemented(sql_type)
      [] sql_type = "MULTISET" -> sql_not_implemented(sql_type)
      [] sql_type = "NULL" ->
            Ok(DataTypeMap_new(Unit("Null"), "None", "NULL"))
      [] sql_type = "OTHER" -> sql_not_implemented(sql_type)
      [] sql_type = "REAL" -> sql_not_implemented(sql_type)
      [] sql_type = "ROW" -> sql_not_implemented(sql_type)
      [] sql_type = "SARG" -> sql_not_implemented(sql_type)
      [] sql_type = "SMALLINT" ->
            Ok(DataTypeMap_new(Unit("Int16"), "Int", "SMALLINT"))
      [] sql_type = "STRUCTURED" -> sql_not_implemented(sql_type)
      [] sql_type = "SYMBOL" -> sql_not_implemented(sql_type)
      [] sql_type = "TIME" -> sql_not_implemented(sql_type)
      [] sql_type = "TIME_WITH_LOCAL_TIME_ZONE" -> sql_not_implemented(sql_type)
      [] sql_type = "TIMESTAMP" -> sql_not_implemented(sql_type)
      [] sql_type = "TIMESTAMP_WITH_LOCAL_TIME_ZONE" -> sql_not_implemented(sql_type)
      [] sql_type = "TINYINT" ->
            Ok(DataTypeMap_new(Unit("Int8"), "Int", "TINYINT"))
      [] sql_type = "UNKNOWN" -> sql_not_implemented(sql_type)
      [] sql_type = "VARBINARY" ->
            Ok(DataTypeMap_new(Unit("LargeBinary"), "Bytes", "VARBINARY"))
      [] sql_type = "VARCHAR" ->
            Ok(DataTypeMap_new(Unit("Utf8"), "Str", "VARCHAR"))

\* Mutant of py_map_from_sql_type: the REAL arm panics (unimplemented!())
\* instead of returning an error.
py_map_from_sql_type_panics(sql_type) ==
    IF sql_type = "REAL" THEN [panic |-> "not implemented"]
    ELSE match_sql_type(sql_type)

\* Mutant of py_map_from_sql_type: INTEGER is mapped to Int32.
py_map_from_sql_type_int32(sql_type) ==
    IF sql_type = "INTEGER"
    THEN Ok(DataTypeMap_new(Unit("Int32"), "Int", "INTEGER"))
    ELSE match_sql_type(sql_type)

\* Mutant of py_map_from_sql_type: REAL is given a default, Float32.
py_map_from_sql_type_real(sql_type) ==
    IF sql_type = "REAL"
    THEN Ok(DataTypeMap_new(Unit("Float32"), "Float", "REAL"))
    ELSE match_sql_type(sql_type)

\* Mutant of py_map_from_sql_type: CHAR keeps UInt8 and is given host Str.
py_map_from_sql_type_char_str(sql_type) ==
    IF sql_type = "CHAR"
    THEN Ok(DataTypeMap_new(Unit("UInt8"), "Str", "CHAR"))
    ELSE match_sql_type(sql_type)

\* DataTypeMap::py_map_from_sql_type, lines 314-505.
py_map_from_sql_type(sql_type) == match_sql_type(sql_type)

---------------------------------------------------------------------------
(* datafusion_common::ScalarValue, the type matched at lines 238-291.      *)

\* A variant that carries one Option value: ScalarValue::Int32(_), ...
Scalar(tag, v) == [tag |-> tag, v |-> v]

ScalarNull == [tag |-> "Null"]

ScalarDecimal128(v, precision, scale) ==
    [tag |-> "Decimal128", v |-> v, precision |-> precision, scale |-> scale]

\* TimestampSecond(_, tz), TimestampMillisecond(_, tz), ...
ScalarTimestamp(tag, v, tz) == [tag |-> tag, v |-> v, tz |-> tz]

ScalarDictionary(data_type, scalar_type) ==
    [tag |-> "Dictionary", data_type |-> data_type,
     scalar_type |-> scalar_type]

ScalarList(v, field_ref) == [tag |-> "List", v |-> v, field_ref |-> field_ref]

ScalarStruct(v, fields) == [tag |-> "Struct", v |-> v, fields |-> fields]

ScalarFixedSizeBinary(size, v) ==
    [tag |-> "FixedSizeBinary", size |-> size, v |-> v]

\* The variants that carry only a value.
ValueScalarTags ==
    {"Boolean", "Float32", "Float64", "Int8", "Int16", "Int32", "Int64",
     "UInt8", "UInt16", "UInt32", "UInt64", "Utf8", "LargeUtf8", "Binary",
     "LargeBinary", "Date32", "Date64", "Time32Second", "Time32Millisecond",
     "Time64Microsecond", "Time64Nanosecond", "IntervalYearMonth",
     "IntervalDayTime", "IntervalMonthDayNano"}

TimestampScalarTags ==
    {"TimestampSecond", "TimestampMillisecond", "TimestampMicrosecond",
     "TimestampNanosecond"}

\* Every ScalarValue that holds no other ScalarValue.
BaseScalars ==
    {Scalar(t, v) : t \in ValueScalarTags, v \in Payloads}
    \cup {ScalarNull}
    \cup {ScalarDecimal128(v, p, s) :
              v \in Payloads, p \in Precisions, s \in Scales}
    \cup {ScalarTimestamp(t, v, z) :
              t \in TimestampScalarTags, v \in Payloads, z \in TimeZones}
    \cup {ScalarList(v, f) :
              v \in Payloads, f \in FieldsOver(ElementLeafTypes)}
    \cup {ScalarStruct(v, fs) :
              v \in Payloads, fs \in FieldListsOver(ElementLeafTypes)}
    \cup {ScalarFixedSizeBinary(n, v) : n \in Sizes, v \in Payloads}

RECURSIVE ScalarValues(_)
\* The scalars whose Dictionary nesting depth is at most d.
ScalarValues(d) ==
    IF d = 0 THEN BaseScalars
    ELSE LET below == ScalarValues(d - 1)
         IN  below \cup {ScalarDictionary(k, w) : k \in KeyTypes, w \in below}

RECURSIVE map_from_scalar_to_arrow(_)
RECURSIVE match_scalar_val(_)

\* The match of map_from_scalar_to_arrow, lines 238-291, arm by arm.
match_scalar_val(scalar_val) ==
    CASE scalar_val.tag = "Boolean" -> Ok(Unit("Boolean"))
      [] scalar_val.tag = "Float32" -> Ok(Unit("Float32"))
      [] scalar_val.tag = "Float64" -> Ok(Unit("Float64"))
      [] scalar_val.tag = "Decimal128" ->
            Ok(Decimal128(scalar_val.precision, scalar_val.scale))
      [] scalar_val.tag = "Dictionary" ->
            \* map_from_scalar_to_arrow(scalar_type)?: an error returns early
            LET inner == map_from_scalar_to_arrow(scalar_val.scalar_type)
            IN  IF IsErr(inner) THEN inner
                ELSE Ok(Dictionary(scalar_val.data_type, inner.value))
      [] scalar_val.tag = "Int8" -> Ok(Unit("Int8"))
      [] scalar_val.tag = "Int16" -> Ok(Unit("Int16"))
      [] scalar_val.tag = "Int32" -> Ok(Unit("Int32"))
      [] scalar_val.tag = "Int64" -> Ok(Unit("Int64"))
      [] scalar_val.tag = "UInt8" -> Ok(Unit("UInt8"))
      [] scalar_val.tag = "UInt16" -> Ok(Unit("UInt16"))
      [] scalar_val.tag = "UInt32" -> Ok(Unit("UInt32"))
      [] scalar_val.tag = "UInt64" -> Ok(Unit("UInt64"))
      [] scalar_val.tag = "Utf8" -> Ok(Unit("Utf8"))
      [] scalar_val.tag = "LargeUtf8" -> Ok(Unit("LargeUtf8"))
      [] scalar_val.tag = "Binary" -> Ok(Unit("Binary"))
      [] scalar_val.tag = "LargeBinary" -> Ok(Unit("LargeBinary"))
      [] scalar_val.tag = "Date32" -> Ok(Unit("Date32"))
      [] scalar_val.tag = "Date64" -> Ok(Unit("Date64"))
      [] scalar_val.tag = "Time32Second" -> Ok(Time32("Second"))
      [] scalar_val.tag = "Time32Millisecond" -> Ok(Time32("Millisecond"))
      [] scalar_val.tag = "Time64Microsecond" -> Ok(Time64("Microsecond"))
      [] scalar_val.tag = "Time64Nanosecond" -> Ok(Time64("Nanosecond"))
      [] scalar_val.tag = "Null" -> Ok(Unit("Null"))
      [] scalar_val.tag = "TimestampSecond" ->
            Ok(Timestamp("Second", scalar_val.tz))
      [] scalar_val.tag = "TimestampMillisecond" ->
            Ok(Timestamp("Millisecond", scalar_val.tz))
      [] scalar_val.tag = "TimestampMicrosecond" ->
            Ok(Timestamp("Microsecond", scalar_val.tz))
      [] scalar_val.tag = "TimestampNanosecond" ->
            Ok(Timestamp("Nanosecond", scalar_val.tz))
      [] scalar_val.tag = "IntervalYearMonth" -> Ok(Interval("YearMonth"))
      [] scalar_val.tag = "IntervalDayTime" -> Ok(Interval("DayTime"))
      [] scalar_val.tag = "IntervalMonthDayNano" ->
            Ok(Interval("MonthDayNano"))
      [] scalar_val.tag = "List" -> Ok(List(scalar_val.field_ref))
      [] scalar_val.tag = "Struct" -> Ok(Struct(scalar_val.fields))
      [] scalar_val.tag = "FixedSizeBinary" ->
            Ok(FixedSizeBinary(scalar_val.size))

\* Mutant of map_from_scalar_to_arrow: a scalar that carries None is given
\* the Null type, so the inferred type depends on the carried value.
map_from_scalar_to_arrow_null_value(scalar_val) ==
    IF "v" \in DOMAIN scalar_val /\ scalar_val.tag = "Int32"
       /\ scalar_val.v = None
    THEN Ok(Unit("Null"))
    ELSE match_scalar_val(scalar_val)

\* DataTypeMap::map_from_scalar_to_arrow, lines 237-292.
map_from_scalar_to_arrow(scalar_val) == match_scalar_val(scalar_val)

\* Mutant of map_from_scalar_value: a Dictionary is mapped as its value type.
map_from_scalar_value_unwraps(scalar_val) ==
    LET inferred == map_from_scalar_to_arrow(scalar_val)
    IN  IF IsErr(inferred) THEN inferred
        ELSE IF inferred.value.tag = "Dictionary"
             THEN map_from_arrow_type(inferred.value.val)
             ELSE map_from_arrow_type(inferred.value)

\* DataTypeMap::map_from_scalar_value, lines 232-234: the `?` returns the
\* inference's error, otherwise the inferred type is mapped.
map_from_scalar_value(scalar_val) ==
    LET inferred == map_from_scalar_to_arrow(scalar_val)
    IN  IF IsErr(inferred) THEN inferred
        ELSE map_from_arrow_type(inferred.value)

---------------------------------------------------------------------------
(* The state machine: one call of one entry point on one argument.         *)

\* The arguments, each under the name of the parameter it is passed as
\* (a PyDataType is the struct with its data_type field).
Args ==
    {[arrow_type |-> t] : t \in DataTypes}
    \cup {PyDataType(t) : t \in DataTypes}
    \cup {[sql_type |-> s] : s \in SqlType}
    \cup {[scalar_val |-> v] : v \in ScalarValues(MaxDictDepth)}

\* No call has returned yet.
NoResult == [pending |-> TRUE]

Init ==
    /\ op = "none"
    /\ arg \in Args
    /\ result = NoResult

Call_map_from_arrow_type ==
    /\ op = "none"
    /\ "arrow_type" \in DOMAIN arg
    /\ op' = "map_from_arrow_type"
    /\ result' = map_from_arrow_type(arg.arrow_type)
    /\ UNCHANGED arg

Call_py_map_from_arrow_type ==
    /\ op = "none"
    /\ "data_type" \in DOMAIN arg
    /\ op' = "py_map_from_arrow_type"
    /\ result' = py_map_from_arrow_type(arg)
    /\ UNCHANGED arg

Call_py_map_from_sql_type ==
    /\ op = "none"
    /\ "sql_type" \in DOMAIN arg
    /\ op' = "py_map_from_sql_type"
    /\ result' = py_map_from_sql_type(arg.sql_type)
    /\ UNCHANGED arg

Call_map_from_scalar_to_arrow ==
    /\ op = "none"
    /\ "scalar_val" \in DOMAIN arg
    /\ op' = "map_from_scalar_to_arrow"
    /\ result' = map_from_scalar_to_arrow(arg.scalar_val)
    /\ UNCHANGED arg

Call_map_from_scalar_value ==
    /\ op = "none"
    /\ "scalar_val" \in DOMAIN arg
    /\ op' = "map_from_scalar_value"
    /\ result' = map_from_scalar_value(arg.scalar_val)
    /\ UNCHANGED arg

Next ==
    \/ Call_map_from_arrow_type
    \/ Call_py_map_from_arrow_type
    \/ Call_py_map_from_sql_type
    \/ Call_map_from_scalar_to_arrow
    \/ Call_map_from_scalar_value

Spec == Init /\ [][Next]_vars

---------------------------------------------------------------------------
(* The entry points called by several callers.  Here op, arg and result    *)
(* hold one entry per caller.  A call is one step: the functions take      *)
(* their argument by shared reference, return an owned value and touch     *)
(* nothing else.  A caller that holds a result drops it and calls again    *)
(* with any argument, so calls happen before, between and interleaved      *)
(* with the calls of the other callers.                                    *)

Callers == 1..NumCallers

\* The arguments the callers draw: each entry point's success and failure.
CallArgs ==
    {[arrow_type |-> Unit("Int8")],
     [arrow_type |-> Timestamp("Second", Some("UTC"))],
     [arrow_type |-> Duration("Second")],
     PyDataType(Decimal128(1, 1)),
     [sql_type |-> "INTEGER"],
     [sql_type |-> "GEOMETRY"],
     [scalar_val |-> Scalar("Int32", Some(42))],
     [scalar_val |-> ScalarDictionary(Unit("Int8"), Scalar("Utf8", None))]}

InitCalls ==
    /\ op = [c \in Callers |-> "none"]
    /\ arg \in [Callers -> CallArgs]
    /\ result = [c \in Callers |-> NoResult]

Caller_map_from_arrow_type(c) ==
    /\ op[c] = "none"
    /\ "arrow_type" \in DOMAIN arg[c]
    /\ op' = [op EXCEPT ![c] = "map_from_arrow_type"]
    /\ result' = [result EXCEPT ![c] = map_from_arrow_type(arg[c].arrow_type)]
    /\ UNCHANGED arg

Caller_py_map_from_arrow_type(c) ==
    /\ op[c] = "none"
    /\ "data_type" \in DOMAIN arg[c]
    /\ op' = [op EXCEPT ![c] = "py_map_from_arrow_type"]
    /\ result' = [result EXCEPT ![c] = py_map_from_arrow_type(arg[c])]
    /\ UNCHANGED arg

Caller_py_map_from_sql_type(c) ==
    /\ op[c] = "none"
    /\ "sql_type" \in DOMAIN arg[c]
    /\ op' = [op EXCEPT ![c] = "py_map_from_sql_type"]
    /\ result' = [result EXCEPT ![c] = py_map_from_sql_type(arg[c].sql_type)]
    /\ UNCHANGED arg

Caller_map_from_scalar_to_arrow(c) ==
    /\ op[c] = "none"
    /\ "scalar_val" \in DOMAIN arg[c]
    /\ op' = [op EXCEPT ![c] = "map_from_scalar_to_arrow"]
    /\ result' =
           [result EXCEPT ![c] = map_from_scalar_to_arrow(arg[c].scalar_val)]
    /\ UNCHANGED arg

Caller_map_from_scalar_value(c) ==
    /\ op[c] = "none"
    /\ "scalar_val" \in DOMAIN arg[c]
    /\ op' = [op EXCEPT ![c] = "map_from_scalar_value"]
    /\ result' =
           [result EXCEPT ![c] = map_from_scalar_value(arg[c].scalar_val)]
    /\ UNCHANGED arg

\* The caller drops the result it holds and draws its next argument.
Caller_drop(c) ==
    /\ op[c] # "none"
    /\ op' = [op EXCEPT ![c] = "none"]
    /\ result' = [result EXCEPT ![c] = NoResult]
    /\ \E a \in CallArgs : arg' = [arg EXCEPT ![c] = a]

NextCalls ==
    \E c \in Callers :
        \/ Caller_map_from_arrow_type(c)
        \/ Caller_py_map_from_arrow_type(c)
        \/ Caller_py_map_from_sql_type(c)
        \/ Caller_map_from_scalar_to_arrow(c)
        \/ Caller_map_from_scalar_value(c)
        \/ Caller_drop(c)

SpecCalls == InitCalls /\ [][NextCalls]_vars

---------------------------------------------------------------------------
(* Vocabulary of the properties.  The specification's fromPhysical is      *)
(* map_from_arrow_type (and its wrapper py_map_from_arrow_type), fromSql   *)
(* is py_map_from_sql_type, fromScalar is map_from_scalar_value and        *)
(* inferPhysical is map_from_scalar_to_arrow; its Unsupported error is     *)
(* DataFusionError::NotImplemented wrapped by py_datafusion_err.           *)

FromPhysicalOps == {"map_from_arrow_type", "py_map_from_arrow_type"}

FromPhysicalDone == op \in FromPhysicalOps

FromSqlDone == op = "py_map_from_sql_type"

FromScalarDone == op = "map_from_scalar_value"

InferPhysicalDone == op = "map_from_scalar_to_arrow"

\* The DataType a fromPhysical call was given.
PhysicalIn ==
    IF op = "map_from_arrow_type" THEN arg.arrow_type ELSE arg.data_type

\* r is a record with all three fields populated from their enumerations.
IsMappingRecord(r) ==
    /\ DOMAIN r = {"ok", "value"}
    /\ r.ok = TRUE
    /\ DOMAIN r.value = {"arrow_type", "python_type", "sql_type"}
    /\ DOMAIN r.value.arrow_type = {"data_type"}
    /\ "tag" \in DOMAIN r.value.arrow_type.data_type
    /\ r.value.arrow_type.data_type.tag \in DataTypeTags
    /\ r.value.python_type \in PythonType
    /\ r.value.sql_type \in SqlType

\* r is the Unsupported error.
IsUnsupported(r) ==
    /\ DOMAIN r = {"ok", "error"}
    /\ r.ok = FALSE
    /\ DOMAIN r.error = {"py_err"}
    /\ DOMAIN r.error.py_err = {"variant", "msg"}
    /\ r.error.py_err.variant = "NotImplemented"

\* The description of the offending type an Unsupported error carries.
Message(r) == r.error.py_err.msg

Physical(r) == r.value.arrow_type.data_type

Host(r) == r.value.python_type

Sql(r) == r.value.sql_type

\* The record {physical, host, sql}.
MappingRecord(physical, host, sql) ==
    Ok([arrow_type |-> [data_type |-> physical], python_type |-> host,
        sql_type |-> sql])

\* The string s begins with the string prefix.
StartsWith(s, prefix) ==
    Len(s) >= Len(prefix) /\ SubSeq(s, 1, Len(prefix)) = prefix

---------------------------------------------------------------------------
(* C1.  Totality: every call of fromPhysical or fromSql, on every variant  *)
(* of DataType (with any parameters) and of SqlType, ends in exactly one   *)
(* of two outcomes: a fully populated record or the Unsupported error.     *)
(* The arguments drawn cover all 35 DataType variants and all 48 SqlType   *)
(* variants.                                                               *)
C1_Totality ==
    /\ {t.tag : t \in DataTypes} = DataTypeTags
    /\ Cardinality(DataTypeTags) = 35
    /\ Cardinality(SqlType) = 48
    /\ (FromPhysicalDone \/ FromSqlDone) =>
           \/ IsMappingRecord(result) /\ ~IsUnsupported(result)
           \/ IsUnsupported(result) /\ ~IsMappingRecord(result)

\* fromSql has returned the error for the last variant of its match that
\* fails, UNKNOWN.
C1_Witness ==
    /\ FromSqlDone
    /\ arg.sql_type = "UNKNOWN"
    /\ IsUnsupported(result)

---------------------------------------------------------------------------
(* C2.  Container rejection: fromPhysical fails with Unsupported on        *)
(* Duration, FixedSizeBinary, List, FixedSizeList, LargeList, Struct,      *)
(* Union, Dictionary, Map and RunEndEncoded, whatever their parameters,    *)
(* and the error names the input type: its message is the Debug rendering  *)
(* of the input, which begins with the variant's name.                     *)
RejectedTags ==
    {"Duration", "FixedSizeBinary", "List", "FixedSizeList", "LargeList",
     "Struct", "Union", "Dictionary", "Map", "RunEndEncoded"}

C2_ContainerRejection ==
    (FromPhysicalDone /\ PhysicalIn.tag \in RejectedTags) =>
        /\ IsUnsupported(result)
        /\ ~IsOk(result)
        /\ Message(result) = DebugDataType(PhysicalIn)
        /\ StartsWith(Message(result), PhysicalIn.tag)

\* fromPhysical has rejected a RunEndEncoded type.
C2_Witness ==
    /\ op = "map_from_arrow_type"
    /\ arg.arrow_type.tag = "RunEndEncoded"
    /\ IsUnsupported(result)
    /\ StartsWith(Message(result), "RunEndEncoded(Field { name: \"run_ends\"")

---------------------------------------------------------------------------
(* C3.  Parameter fidelity: when fromPhysical succeeds, the physical field *)
(* of the record is the input, parameters included.                        *)
C3_ParameterFidelity ==
    (FromPhysicalDone /\ IsOk(result)) => Physical(result) = PhysicalIn

\* fromPhysical has succeeded on a Timestamp with a unit and a timezone.
C3_Witness ==
    /\ op = "map_from_arrow_type"
    /\ arg.arrow_type = Timestamp("Microsecond", Some("UTC"))
    /\ IsOk(result)
    /\ Physical(result).tz = Some("UTC")

---------------------------------------------------------------------------
(* C4.  Classification consistency: fromPhysical gives host type Int to    *)
(* exactly the eight integer variants, each with the SQL type of its bit   *)
(* width whatever its signedness.                                          *)
IntegerTags ==
    {"Int8", "Int16", "Int32", "Int64", "UInt8", "UInt16", "UInt32",
     "UInt64"}

\* The SQL type of an integer variant's bit width.
SqlOfWidth(tag) ==
    CASE tag \in {"Int8", "UInt8"} -> "TINYINT"
      [] tag \in {"Int16", "UInt16"} -> "SMALLINT"
      [] tag \in {"Int32", "UInt32"} -> "INTEGER"
      [] tag \in {"Int64", "UInt64"} -> "BIGINT"

C4_IntegerClassification ==
    FromPhysicalDone =>
        /\ PhysicalIn.tag \in IntegerTags =>
               /\ IsOk(result)
               /\ Host(result) = "Int"
               /\ Sql(result) = SqlOfWidth(PhysicalIn.tag)
        /\ (IsOk(result) /\ Host(result) = "Int") =>
               /\ PhysicalIn.tag \in IntegerTags
               /\ Sql(result) \in {"TINYINT", "SMALLINT", "INTEGER", "BIGINT"}

\* fromPhysical has classified UInt32.
C4_Witness ==
    /\ op = "map_from_arrow_type"
    /\ arg.arrow_type = Unit("UInt32")
    /\ IsOk(result)
    /\ Host(result) = "Int"
    /\ Sql(result) = "INTEGER"

---------------------------------------------------------------------------
(* C5.  The table of the non-integer supported types: fromPhysical         *)
(* succeeds on each of them with the host and SQL type of the table.       *)
TableTags ==
    {"Null", "Boolean", "Float16", "Float32", "Float64", "Timestamp",
     "Date32", "Date64", "Time32", "Time64", "Interval", "Binary",
     "LargeBinary", "Utf8", "LargeUtf8", "Decimal128", "Decimal256"}

\* The <<host, SQL>> pair the table gives to the type t.
TableEntry(t) ==
    CASE t.tag = "Null" -> <<"None", "NULL">>
      [] t.tag = "Boolean" -> <<"Bool", "BOOLEAN">>
      [] t.tag \in {"Float16", "Float32", "Float64"} -> <<"Float", "FLOAT">>
      [] t.tag \in {"Timestamp", "Date32", "Date64", "Time32", "Time64"} ->
            <<"Datetime", "DATE">>
      [] t.tag = "Interval" /\ t.unit = "YearMonth" ->
            <<"Datetime", "INTERVAL_YEAR_MONTH">>
      [] t.tag = "Interval" /\ t.unit = "DayTime" ->
            <<"Datetime", "INTERVAL_DAY">>
      [] t.tag = "Interval" /\ t.unit = "MonthDayNano" ->
            <<"Datetime", "INTERVAL_MONTH">>
      [] t.tag \in {"Binary", "LargeBinary"} -> <<"Bytes", "BINARY">>
      [] t.tag \in {"Utf8", "LargeUtf8"} -> <<"Str", "VARCHAR">>
      [] t.tag \in {"Decimal128", "Decimal256"} -> <<"Float", "DECIMAL">>

C5_NonIntegerTable ==
    (FromPhysicalDone /\ PhysicalIn.tag \in TableTags) =>
        /\ IsOk(result)
        /\ <<Host(result), Sql(result)>> = TableEntry(PhysicalIn)

\* fromPhysical has classified Interval(MonthDayNano).
C5_Witness ==
    /\ op = "py_map_from_arrow_type"
    /\ arg.data_type = Interval("MonthDayNano")
    /\ IsOk(result)
    /\ Sql(result) = "INTERVAL_MONTH"

---------------------------------------------------------------------------
(* C6.  fromSql succeeds on exactly fourteen SQL types, with the physical  *)
(* defaults below, and the sql field of every record it returns is the     *)
(* input; fromSql(BIGINT) is {Int64, Int, BIGINT}.                         *)
SupportedSql ==
    {"BIGINT", "INTEGER", "SMALLINT", "TINYINT", "DATE", "DECIMAL", "FLOAT",
     "DOUBLE", "CHAR", "BOOLEAN", "BINARY", "VARBINARY", "VARCHAR", "NULL"}

\* The physical default of a supported SQL type.
SqlDefault(s) ==
    CASE s = "BIGINT" -> Unit("Int64")
      [] s = "INTEGER" -> Unit("Int8")
      [] s = "SMALLINT" -> Unit("Int16")
      [] s = "TINYINT" -> Unit("Int8")
      [] s = "DATE" -> Unit("Date64")
      [] s = "DECIMAL" -> Decimal128(1, 1)
      [] s = "FLOAT" -> Decimal128(1, 1)
      [] s = "DOUBLE" -> Decimal256(1, 1)
      [] s = "CHAR" -> Unit("UInt8")
      [] s = "BOOLEAN" -> Unit("Boolean")
      [] s = "BINARY" -> Unit("Binary")
      [] s = "VARBINARY" -> Unit("LargeBinary")
      [] s = "VARCHAR" -> Unit("Utf8")
      [] s = "NULL" -> Unit("Null")

C6_SqlDefaults ==
    /\ Cardinality(SupportedSql) = 14
    /\ FromSqlDone =>
           /\ IsOk(result) <=> arg.sql_type \in SupportedSql
           /\ IsOk(result) =>
                  /\ Physical(result) = SqlDefault(arg.sql_type)
                  /\ Sql(result) = arg.sql_type
           /\ arg.sql_type = "BIGINT" =>
                  result = MappingRecord(Unit("Int64"), "Int", "BIGINT")

\* fromSql has returned the default of DOUBLE.
C6_Witness ==
    /\ FromSqlDone
    /\ arg.sql_type = "DOUBLE"
    /\ IsOk(result)
    /\ Physical(result) = Decimal256(1, 1)
    /\ Sql(result) = "DOUBLE"

---------------------------------------------------------------------------
(* C7.  fromSql fails with Unsupported, whose message is the name of the   *)
(* input SQL type, on each of the 34 SQL types without a physical          *)
(* counterpart; it returns no record for them.                             *)
UnsupportedSql ==
    {"ANY", "ARRAY", "COLUMN_LIST", "CURSOR", "DISTINCT", "DYNAMIC_STAR",
     "GEOMETRY", "INTERVAL", "INTERVAL_DAY", "INTERVAL_DAY_HOUR",
     "INTERVAL_DAY_MINUTE", "INTERVAL_DAY_SECOND", "INTERVAL_HOUR",
     "INTERVAL_HOUR_MINUTE", "INTERVAL_HOUR_SECOND", "INTERVAL_MINUTE",
     "INTERVAL_MINUTE_SECOND", "INTERVAL_MONTH", "INTERVAL_SECOND",
     "INTERVAL_YEAR", "INTERVAL_YEAR_MONTH", "MAP", "MULTISET", "OTHER",
     "REAL", "ROW", "SARG", "STRUCTURED", "SYMBOL", "TIME",
     "TIME_WITH_LOCAL_TIME_ZONE", "TIMESTAMP",
     "TIMESTAMP_WITH_LOCAL_TIME_ZONE", "UNKNOWN"}

C7_SqlRejection ==
    /\ UnsupportedSql \subseteq SqlType
    /\ Cardinality(UnsupportedSql) = 34
    /\ (FromSqlDone /\ arg.sql_type \in UnsupportedSql) =>
           /\ IsUnsupported(result)
           /\ ~IsOk(result)
           /\ Message(result) = arg.sql_type

\* fromSql has rejected GEOMETRY.
C7_Witness ==
    /\ FromSqlDone
    /\ arg.sql_type = "GEOMETRY"
    /\ IsUnsupported(result)
    /\ Message(result) = "GEOMETRY"

---------------------------------------------------------------------------
(* C8.  Inference composition: inferPhysical never fails and returns the   *)
(* physical type of the value's tag, with the parameters the value         *)
(* carries and whatever the carried value is; fromScalar(v) is             *)
(* fromPhysical of that type.  fromScalar(Int32 42) is fromPhysical(Int32) *)
(* and fromScalar(IntervalYearMonth 5) is {Interval(YearMonth), Datetime,  *)
(* INTERVAL_YEAR_MONTH}.                                                   *)
RECURSIVE TagPhysical(_)
\* The physical type of a tagged value: a function of the tag and of the
\* parameters, never of the carried value v.v.
TagPhysical(v) ==
    CASE v.tag \in {"Null", "Boolean", "Float32", "Float64", "Int8", "Int16",
                    "Int32", "Int64", "UInt8", "UInt16", "UInt32", "UInt64",
                    "Utf8", "LargeUtf8", "Binary", "LargeBinary", "Date32",
                    "Date64"} -> Unit(v.tag)
      [] v.tag = "Decimal128" -> Decimal128(v.precision, v.scale)
      [] v.tag = "Time32Second" -> Time32("Second")
      [] v.tag = "Time32Millisecond" -> Time32("Millisecond")
      [] v.tag = "Time64Microsecond" -> Time64("Microsecond")
      [] v.tag = "Time64Nanosecond" -> Time64("Nanosecond")
      [] v.tag = "TimestampSecond" -> Timestamp("Second", v.tz)
      [] v.tag = "TimestampMillisecond" -> Timestamp("Millisecond", v.tz)
      [] v.tag = "TimestampMicrosecond" -> Timestamp("Microsecond", v.tz)
      [] v.tag = "TimestampNanosecond" -> Timestamp("Nanosecond", v.tz)
      [] v.tag = "IntervalYearMonth" -> Interval("YearMonth")
      [] v.tag = "IntervalDayTime" -> Interval("DayTime")
      [] v.tag = "IntervalMonthDayNano" -> Interval("MonthDayNano")
      [] v.tag = "List" -> List(v.field_ref)
      [] v.tag = "Struct" -> Struct(v.fields)
      [] v.tag = "FixedSizeBinary" -> FixedSizeBinary(v.size)
      [] v.tag = "Dictionary" ->
            Dictionary(v.data_type, TagPhysical(v.scalar_type))

C8_InferenceComposition ==
    /\ InferPhysicalDone =>
           /\ IsOk(result)
           /\ result.value = TagPhysical(arg.scalar_val)
    /\ FromScalarDone =>
           result = map_from_arrow_type(TagPhysical(arg.scalar_val))
    /\ (FromScalarDone /\ arg.scalar_val = Scalar("Int32", Some(42))) =>
           /\ result = map_from_arrow_type(Unit("Int32"))
           /\ result = MappingRecord(Unit("Int32"), "Int", "INTEGER")
    /\ (FromScalarDone
        /\ arg.scalar_val = Scalar("IntervalYearMonth", Some(5))) =>
           result = MappingRecord(Interval("YearMonth"), "Datetime",
                                  "INTERVAL_YEAR_MONTH")

\* fromScalar has mapped the Int32 value 42.
C8_Witness ==
    /\ FromScalarDone
    /\ arg.scalar_val = Scalar("Int32", Some(42))
    /\ result = MappingRecord(Unit("Int32"), "Int", "INTEGER")

---------------------------------------------------------------------------
(* C9.  For a Dictionary value with key type k and nested value w,         *)
(* inferPhysical succeeds with Dictionary(k, inferPhysical(w)), at every   *)
(* nesting depth; fromScalar on a Dictionary, List, Struct or              *)
(* FixedSizeBinary value fails with Unsupported, whose message is the      *)
(* Debug rendering of the inferred type: the inference succeeds and the    *)
(* call fails.                                                             *)
ContainerScalarTags == {"Dictionary", "List", "Struct", "FixedSizeBinary"}

C9_DictionaryInference ==
    /\ (InferPhysicalDone /\ arg.scalar_val.tag = "Dictionary") =>
           LET inner == map_from_scalar_to_arrow(arg.scalar_val.scalar_type)
           IN  /\ IsOk(inner)
               /\ IsOk(result)
               /\ result.value =
                      Dictionary(arg.scalar_val.data_type, inner.value)
    /\ (FromScalarDone /\ arg.scalar_val.tag \in ContainerScalarTags) =>
           LET inferred == map_from_scalar_to_arrow(arg.scalar_val)
           IN  /\ IsOk(inferred)
               /\ inferred.value.tag = arg.scalar_val.tag
               /\ IsUnsupported(result)
               /\ Message(result) = DebugDataType(inferred.value)
               /\ StartsWith(Message(result), arg.scalar_val.tag)

\* fromScalar has rejected a Dictionary nested in a Dictionary, naming the
\* type inferred through both levels.
C9_Witness ==
    /\ FromScalarDone
    /\ arg.scalar_val =
           ScalarDictionary(Unit("Int8"),
               ScalarDictionary(Unit("Int32"), Scalar("Utf8", None)))
    /\ IsUnsupported(result)
    /\ Message(result) = "Dictionary(Int8, Dictionary(Int32, Utf8))"

---------------------------------------------------------------------------
(* C10.  Asymmetric round trip: mapping a supported SQL type to its        *)
(* physical default and that type back gives the same SQL type for         *)
(* BIGINT, BINARY, BOOLEAN, DATE, DECIMAL, NULL, SMALLINT, TINYINT and     *)
(* VARCHAR and another one for CHAR, DOUBLE, FLOAT, INTEGER and VARBINARY; *)
(* fromSql(INTEGER) is Int8 and fromPhysical(Int8) is TINYINT.             *)
RoundTripSame ==
    {"BIGINT", "BINARY", "BOOLEAN", "DATE", "DECIMAL", "NULL", "SMALLINT",
     "TINYINT", "VARCHAR"}

RoundTripDiffers == {"CHAR", "DOUBLE", "FLOAT", "INTEGER", "VARBINARY"}

C10_AsymmetricRoundTrip ==
    (FromSqlDone /\ IsOk(result)) =>
        LET back == map_from_arrow_type(Physical(result))
        IN  /\ IsOk(back)
            /\ arg.sql_type \in RoundTripSame \cup RoundTripDiffers
            /\ arg.sql_type \in RoundTripSame => Sql(back) = arg.sql_type
            /\ arg.sql_type \in RoundTripDiffers => Sql(back) # arg.sql_type
            /\ arg.sql_type = "INTEGER" =>
                   /\ Physical(result) = Unit("Int8")
                   /\ Sql(back) = "TINYINT"

\* fromSql has mapped INTEGER to Int8, which maps back to TINYINT.
C10_Witness ==
    /\ FromSqlDone
    /\ arg.sql_type = "INTEGER"
    /\ IsOk(result)
    /\ Physical(result) = Unit("Int8")
    /\ Sql(map_from_arrow_type(Physical(result))) = "TINYINT"

---------------------------------------------------------------------------
(* C12.  Host-type agreement of the two directions: whenever fromSql       *)
(* succeeds with a record r, fromPhysical succeeds on r's physical type    *)
(* and returns the same physical type and the same host type as r; only    *)
(* the SQL type may differ.                                                *)
C12_HostAgreement ==
    (FromSqlDone /\ IsOk(result)) =>
        LET back == map_from_arrow_type(Physical(result))
        IN  /\ IsMappingRecord(back)
            /\ ~IsUnsupported(back)
            /\ Physical(back) = Physical(result)
            /\ Host(back) = Host(result)

\* fromSql has mapped CHAR to UInt8 with host Int, which fromPhysical also
\* gives to UInt8, under another SQL type.
C12_Witness ==
    /\ FromSqlDone
    /\ arg.sql_type = "CHAR"
    /\ IsOk(result)
    /\ Host(result) = "Int"
    /\ Host(map_from_arrow_type(Physical(result))) = "Int"
    /\ Sql(map_from_arrow_type(Physical(result))) # Sql(result)

---------------------------------------------------------------------------
(* C13.  fromScalar fails only on container-like tags: on each of the 30   *)
(* other tags it succeeds, and the physical field of its record is the     *)
(* type inferred from the tag and the parameters.                          *)
PlainScalarTags ==
    {"Null", "Boolean", "Float32", "Float64", "Decimal128", "Int8", "Int16",
     "Int32", "Int64", "UInt8", "UInt16", "UInt32", "UInt64", "Utf8",
     "LargeUtf8", "Binary", "LargeBinary", "Date32", "Date64",
     "Time32Second", "Time32Millisecond", "Time64Microsecond",
     "Time64Nanosecond", "TimestampSecond", "TimestampMillisecond",
     "TimestampMicrosecond", "TimestampNanosecond", "IntervalYearMonth",
     "IntervalDayTime", "IntervalMonthDayNano"}

C13_ScalarSuccess ==
    /\ Cardinality(PlainScalarTags) = 30
    /\ PlainScalarTags \cap ContainerScalarTags = {}
    /\ {v.tag : v \in BaseScalars} \cup {"Dictionary"} =
           PlainScalarTags \cup ContainerScalarTags
    /\ FromScalarDone =>
           /\ arg.scalar_val.tag \in PlainScalarTags =>
                  /\ IsMappingRecord(result)
                  /\ Physical(result) = TagPhysical(arg.scalar_val)
           /\ ~IsOk(result) => arg.scalar_val.tag \in ContainerScalarTags

\* fromScalar has mapped an IntervalMonthDayNano value.
C13_Witness ==
    /\ FromScalarDone
    /\ arg.scalar_val = Scalar("IntervalMonthDayNano", Some(5))
    /\ IsMappingRecord(result)
    /\ Physical(result) = Interval("MonthDayNano")

---------------------------------------------------------------------------
(* C11.  Determinism: two calls of the same entry point with the same      *)
(* input give the same result, a record equal in all three fields or an    *)
(* error of the same kind with the same message, whatever the other        *)
(* callers have called before or call in between; and a step of one        *)
(* caller leaves the argument, the call and the result of every other      *)
(* caller as they were.                                                    *)

\* The results held for the same call of the same input are equal.
SameInputSameResult ==
    \A c, d \in Callers :
        (op[c] # "none" /\ op[c] = op[d] /\ arg[c] = arg[d]) =>
            result[c] = result[d]

\* A step changes the entries of one caller only.
OneCallerChanges ==
    \E c \in Callers :
        \A d \in Callers \ {c} :
            /\ op'[d] = op[d]
            /\ arg'[d] = arg[d]
            /\ result'[d] = result[d]

===========================================================================
